---------------------------- MODULE Spec2Model ----------------------------
(***************************************************************************)
(* Model of xdress.descfilter: the description-filter plugin.  A registry   *)
(* (rc.env) of class descriptions is narrowed by five passes run in order   *)
(* by XDressPlugin.execute: skip_types, skip_methods, skip_attrs,           *)
(* skip_auto, include_methods.  XDressPlugin.setup normalises rc.skiptypes  *)
(* into TypeMatcher objects first.                                          *)
(*                                                                         *)
(* Strings that the code inspects with startswith are sequences of tokens  *)
(* ("blowUp" is <<"blow","Up">>), so that a prefix test is computed.        *)
(***************************************************************************)
EXTENDS Integers, Sequences, FiniteSets, TLC

VARIABLES
    env,        \* rc.env: module key -> (description key -> description)
    rc,         \* the run controller's filter fields
    pc,         \* the next step of the plugin life cycle
    raised,     \* the exception that ended the run, "none" if none
    run,        \* how many times execute has been started
    lastPass,   \* the pass that ran last
    prev,       \* rc.env as it was when the last pass started
    envStart,   \* rc.env as it was when the current execute started
    seen,       \* per description: the entries the last pass examined, in order
    order,      \* the iteration order of the mappings ("fwd" or "rev")
    py3         \* TRUE when the interpreter is Python 3

vars == <<env, rc, pc, raised, run, lastPass, prev, envStart, seen, order, py3>>

\* ------------------------------------------------------------------ bounds
MaxRuns == 2
MaxRules == 2

\* ------------------------------------------------------- type descriptors
Atom(n) == [tag |-> "atom", name |-> n, kids |-> <<>>]
Qual(inner, q) == [tag |-> "qual", name |-> q, kids |-> <<inner>>]
Par(head, args) == [tag |-> "par", name |-> head, kids |-> args]
\* a raw configuration value that is neither a string nor a well-formed tuple
BadRaw == [tag |-> "bad", name |-> "", kids |-> <<>>]

TFloat == Atom("float64")
TInt == Atom("int32")
TUnk == Atom("unknownclass")
TVecF == Par("vector", <<TFloat>>)
TCInt == Qual(TInt, "const")
TVecU == Par("vector", <<TUnk>>)

RECURSIVE Flatten(_)
\* the atomic identifiers reachable in a descriptor at any depth
Flatten(t) ==
    {t.name} \cup UNION {Flatten(t.kids[i]) : i \in 1..Len(t.kids)}

\* TypeMatcher(t): construction fails on a malformed raw value
WellFormed(t) == t.tag \in {"atom", "qual", "par"}
TypeMatcher(t) ==
    [pattern |-> t, mode |-> IF t.tag = "atom" THEN "Contains" ELSE "Exact"]

\* tm.flatmatches(t)
flatmatches(tm, t) ==
    IF tm.mode = "Contains"
    THEN tm.pattern.name \in Flatten(t)
    ELSE t = tm.pattern

\* ts.canon(t) raises TypeError for a type it cannot resolve
UnknownAtoms == {"unknownclass"}
CanonFails(t) == Flatten(t) \cap UnknownAtoms # {}

\* ------------------------------------------------------------- signatures
\* A methods key is (name, arg, ...).  name is a string, or a tuple
\* (name, template args...) whose first element is the string; tmpl holds the
\* template args and is empty for a plain string name.  An arg is
\* (pname, type) or (pname, type, default).
Sig(name, tmpl, args) == [name |-> name, tmpl |-> tmpl, args |-> args]
Null == <<>>
Ret(t) == <<t>>

NCheckEmail == <<"check", "Email">>
NTurnOn == <<"turn", "On">>
NBlowUp == <<"blow", "Up">>
NBlow == <<"blow">>
NSleep == <<"sleep">>
NCrash == <<"crash">>
NFoo == <<"foo">>
NBar == <<"bar">>

SCheckEmail == Sig(NCheckEmail, <<>>, <<>>)
STurnOn == Sig(NTurnOn, <<>>, <<>>)
SBlowUp == Sig(NBlowUp, <<>>, <<>>)
SSleep == Sig(NSleep, <<>>, <<>>)
SCrash == Sig(NCrash, <<>>, <<>>)
SFooVec == Sig(NFoo, <<>>, << <<"a", TVecF>> >>)
SFooDef == Sig(NFoo, <<>>, << <<"a", TInt>>, <<"b", TInt, 0>> >>)
SFooT == Sig(NFoo, <<"int32">>, << <<"a", TCInt>> >>)
SBar == Sig(NBar, <<>>, <<>>)
SBarU == Sig(NBar, <<>>, << <<"u", TVecU>> >>)

\* the values the registry-population pass attached to the keys
InfoOf(s) ==
    CASE s = STurnOn -> Ret(TInt)
      [] s = SSleep -> Ret(TFloat)
      [] s = SFooDef -> Ret(TInt)
      [] s = SBar -> Ret(TUnk)
      [] OTHER -> Null

\* a fixed listing of every key; a mapping iterates in this order or in its
\* reverse, according to the variable order
SigList == <<SCheckEmail, STurnOn, SBlowUp, SSleep, SCrash,
             SFooVec, SFooDef, SFooT, SBar, SBarU>>
AttrList == <<"x", "y", "z", "v">>
ModList == <<"m1", "m2">>
KeyList == <<"A", "f", "Bk">>

Reverse(s) == [i \in 1..Len(s) |-> s[Len(s) + 1 - i]]
RECURSIVE Filter(_, _)
Filter(s, S) ==
    IF s = <<>> THEN <<>>
    ELSE IF Head(s) \in S THEN <<Head(s)>> \o Filter(Tail(s), S)
    ELSE Filter(Tail(s), S)
\* list(mapping.keys()): the keys S of a mapping in iteration order
Keys(S, listing, ord) ==
    IF ord = "fwd" THEN Filter(listing, S) ELSE Filter(Reverse(listing), S)
Range(s) == {s[i] : i \in 1..Len(s)}

Del(f, k) == [x \in DOMAIN f \ {k} |-> f[x]]
Restrict(f, S) == [x \in S |-> f[x]]


\* --------------------------------------------------------------- registry
\* isclassdesc(desc)
isclassdesc(desc) == desc.kind = "class"

\* what a pass reports for one description
NoSeen == [attrs |-> <<>>, methods |-> <<>>]
Untouched(desc) == [desc |-> desc, raised |-> "none", seen |-> NoSeen]

\* s.startswith(m)
StartsWith(s, m) == Len(m) <= Len(s) /\ SubSeq(s, 1, Len(m)) = m

\* ------------------------------------------------------------ modify_desc
\* for tm in skips: if tm.flatmatches(t): ...; break
Matches(skips, t) == \E j \in 1..Len(skips) : flatmatches(skips[j], t)

\* the slice taken one element late, m_key[2:]
MethodArgsTail(m_key) == IF m_key.args = <<>> THEN <<>> ELSE Tail(m_key.args)
\* m_args = m_key[1:]
MethodArgs(m_key) == m_key.args

\* t = arg[1]
ArgType(arg) == arg[2]

RECURSIVE ModifyAttrs(_, _, _, _, _, _)
\* the loop over desc['attrs'].copy().items(): snap is the copy, names its
\* keys in iteration order, live the mapping deletions are made in
ModifyAttrs(skips, snap, names, i, live, examined) ==
    IF i > Len(names) THEN [map |-> live, seen |-> examined]
    ELSE LET at_name == names[i]
             at_t == snap[at_name]
         IN ModifyAttrs(skips, snap, names, i + 1,
                        IF Matches(skips, at_t) THEN Del(live, at_name) ELSE live,
                        Append(examined, at_name))

RECURSIVE ArgsMatch(_, _, _)
\* the loop over m_args, left to right, leaving at the first match
ArgsMatch(skips, m_args, i) ==
    IF i > Len(m_args) THEN FALSE
    ELSE IF Matches(skips, ArgType(m_args[i])) THEN TRUE
    ELSE ArgsMatch(skips, m_args, i + 1)

\* one method of the loop: the return type first, then the arguments
MethodDeleted(skips, m_key, m_ret) ==
    IF m_ret # Null /\ Matches(skips, m_ret[1]) THEN TRUE
    ELSE ArgsMatch(skips, MethodArgs(m_key), 1)

RECURSIVE ModifyMethods(_, _, _, _, _, _)
\* the loop over desc['methods'].copy().items()
ModifyMethods(skips, snap, names, i, live, examined) ==
    IF i > Len(names) THEN [map |-> live, seen |-> examined]
    ELSE LET m_key == names[i]
             m_ret == snap[m_key]
         IN ModifyMethods(skips, snap, names, i + 1,
                          IF MethodDeleted(skips, m_key, m_ret)
                          THEN Del(live, m_key) ELSE live,
                          Append(examined, m_key))

modify_desc(skips, desc, ord) ==
    LET a == ModifyAttrs(skips, desc.attrs,
                         Keys(DOMAIN desc.attrs, AttrList, ord), 1, desc.attrs, <<>>)
        m == ModifyMethods(skips, desc.methods,
                           Keys(DOMAIN desc.methods, SigList, ord), 1, desc.methods, <<>>)
    IN [desc |-> [desc EXCEPT !.attrs = a.map, !.methods = m.map],
        raised |-> "none",
        seen |-> [attrs |-> a.seen, methods |-> m.seen]]

\* ------------------------------------------------------------- skip_types
\* the body of skip_types for one class description
SkipTypesDesc(rcv, k_key, desc, ord) ==
    IF rcv.skiptypes.kind = "perclass"
    THEN IF desc.tarname \in DOMAIN rcv.skiptypes.per
         THEN \* skips = rc.skips[...]: the run controller has no such attribute
              IF "skips" \in DOMAIN rcv
              THEN modify_desc(rcv.skips[desc.tarname], desc, ord)
              ELSE [desc |-> desc, raised |-> "AttributeError", seen |-> NoSeen]
         ELSE Untouched(desc)
    ELSE IF rcv.skiptypes.kind = "global"
    THEN modify_desc(rcv.skiptypes.glob, desc, ord)
    ELSE Untouched(desc)

\* ----------------------------------------------------------- skip_methods
\* the lambda f: x[0] is the name, or a tuple whose first element is the name
NameMatches(x, m) == StartsWith(x.name, m)

RECURSIVE SkipMethodsLoop(_, _, _, _, _)
\* for m in skippers: m_nms was taken before the loop.  In Python 2 it is a
\* list and filter returns a list; in Python 3 filter returns an iterator,
\* and indexing it raises TypeError, which the except clause does not catch.
SkipMethodsLoop(skippers, j, m_nms, live, p3) ==
    IF j > Len(skippers) THEN [map |-> live, raised |-> "none"]
    ELSE IF p3 THEN [map |-> live, raised |-> "TypeError"]
    ELSE LET hits == SelectSeq(m_nms, LAMBDA x : NameMatches(x, skippers[j]))
         IN IF hits = <<>>
            THEN SkipMethodsLoop(skippers, j + 1, m_nms, live, p3)
            ELSE LET del_key == hits[1]
                 IN IF del_key \in DOMAIN live
                    THEN SkipMethodsLoop(skippers, j + 1, m_nms,
                                         Del(live, del_key), p3)
                    ELSE [map |-> live, raised |-> "KeyError"]

SkipMethodsDesc(rcv, k_key, desc, ord, p3) ==
    IF desc.tarname \in DOMAIN rcv.skipmethods.map
    THEN IF k_key \notin DOMAIN rcv.skipmethods.map
         THEN [desc |-> desc, raised |-> "KeyError", seen |-> NoSeen]
         ELSE LET r == SkipMethodsLoop(rcv.skipmethods.map[k_key], 1,
                                       Keys(DOMAIN desc.methods, SigList, ord),
                                       desc.methods, p3)
              IN [desc |-> [desc EXCEPT !.methods = r.map],
                  raised |-> r.raised, seen |-> NoSeen]
    ELSE Untouched(desc)

\* ------------------------------------------------------------- skip_attrs
RECURSIVE SkipAttrsLoop(_, _, _)
SkipAttrsLoop(skippers, j, a_nms) ==
    IF j > Len(skippers) THEN a_nms
    ELSE SkipAttrsLoop(skippers, j + 1,
                       IF skippers[j] \in DOMAIN a_nms
                       THEN Del(a_nms, skippers[j]) ELSE a_nms)

SkipAttrsDesc(rcv, k_key, desc) ==
    IF desc.tarname \in DOMAIN rcv.skipattrs.map
    THEN IF k_key \notin DOMAIN rcv.skipattrs.map
         THEN [desc |-> desc, raised |-> "KeyError", seen |-> NoSeen]
         ELSE [desc |-> [desc EXCEPT !.attrs =
                            SkipAttrsLoop(rcv.skipattrs.map[k_key], 1, desc.attrs)],
               raised |-> "none", seen |-> NoSeen]
    ELSE Untouched(desc)

\* -------------------------------------------------------------- skip_auto
RECURSIVE AttrBlacklist(_, _, _, _)
\* the scan of cls_desc['attrs'].items(): names whose type canon rejects
AttrBlacklist(attrs, names, i, black) ==
    IF i > Len(names) THEN black
    ELSE AttrBlacklist(attrs, names, i + 1,
                       IF CanonFails(attrs[names[i]])
                       THEN Append(black, names[i]) ELSE black)

RECURSIVE ArgsCanon(_, _)
\* for _, arg_type in m_sig[1:]: ts.canon(arg_type).  Unpacking an argument
\* that is not a pair raises ValueError, which is not caught.
ArgsCanon(m_args, i) ==
    IF i > Len(m_args) THEN "ok"
    ELSE IF Len(m_args[i]) # 2 THEN "ValueError"
    ELSE IF CanonFails(m_args[i][2]) THEN "TypeError"
    ELSE ArgsCanon(m_args, i + 1)

\* the try block for one method
MethodCanon(m_sig, m_attr) ==
    IF m_attr # Null /\ CanonFails(m_attr[1]) THEN "TypeError"
    ELSE ArgsCanon(m_sig.args, 1)

RECURSIVE MethodBlacklist(_, _, _, _, _)
\* the scan of cls_desc['methods'].items()
MethodBlacklist(methods, names, i, black, examined) ==
    IF i > Len(names) THEN [black |-> black, raised |-> "none", seen |-> examined]
    ELSE LET c == MethodCanon(names[i], methods[names[i]])
         IN IF c = "ValueError"
            THEN [black |-> black, raised |-> "ValueError",
                  seen |-> Append(examined, names[i])]
            ELSE MethodBlacklist(methods, names, i + 1,
                                 IF c = "TypeError"
                                 THEN Append(black, names[i]) ELSE black,
                                 Append(examined, names[i]))

\* for a in blacklist: del mapping[a]
DelAll(f, black) == [x \in DOMAIN f \ Range(black) |-> f[x]]

SkipAutoDesc(desc, ord) ==
    LET a_names == Keys(DOMAIN desc.attrs, AttrList, ord)
        attr_blacklist == AttrBlacklist(desc.attrs, a_names, 1, <<>>)
        attrs2 == DelAll(desc.attrs, attr_blacklist)
        m == MethodBlacklist(desc.methods,
                             Keys(DOMAIN desc.methods, SigList, ord), 1, <<>>, <<>>)
    IN [desc |-> [desc EXCEPT !.attrs = attrs2,
                              !.methods = IF m.raised = "none"
                                          THEN DelAll(desc.methods, m.black)
                                          ELSE desc.methods],
        raised |-> m.raised,
        seen |-> [attrs |-> a_names, methods |-> m.seen]]

\* -------------------------------------------------------- include_methods
\* x[0] in keeps: the user lists strings, so a tuple name is never a member
InKeeps(x, keeps) == x.tmpl = <<>> /\ x.name \in keeps

\* the kept keys without their values, new_meths[mm] = None
NewMethsNull(methods, m_keep) == [mm \in Range(m_keep) |-> Null]
\* new_meths = {}; for mm in m_keep: new_meths[mm] = methods[mm]
NewMeths(methods, m_keep) == [mm \in Range(m_keep) |-> methods[mm]]

IncludeMethodsDesc(rcv, k_key, desc, ord) ==
    IF desc.tarname \in DOMAIN rcv.includemethods.map
    THEN IF k_key \notin DOMAIN rcv.includemethods.map
         THEN [desc |-> desc, raised |-> "KeyError", seen |-> NoSeen]
         ELSE LET keeps == Range(rcv.includemethods.map[k_key])
                  m_nms == Keys(DOMAIN desc.methods, SigList, ord)
                  m_keep == SelectSeq(m_nms, LAMBDA x : InKeeps(x, keeps))
              IN [desc |-> [desc EXCEPT !.methods = NewMeths(desc.methods, m_keep)],
                  raised |-> "none",
                  seen |-> [attrs |-> <<>>, methods |-> m_nms]]
    ELSE Untouched(desc)

\* ------------------------------------------------------------- the passes
\* whether the pass returns at once (its rule is NotSpecified)
NotSpecified(pass, rcv) ==
    CASE pass = "skip_types" -> rcv.skiptypes.kind = "unset"
      [] pass = "skip_methods" -> ~rcv.skipmethods.set
      [] pass = "skip_attrs" -> ~rcv.skipattrs.set
      [] pass = "skip_auto" -> rcv.skipauto = "unset"
      [] pass = "include_methods" -> ~rcv.includemethods.set

\* the body of a pass for one class description
ClassStep(pass, rcv, k_key, desc, ord, p3) ==
    CASE pass = "skip_types" -> SkipTypesDesc(rcv, k_key, desc, ord)
      [] pass = "skip_methods" -> SkipMethodsDesc(rcv, k_key, desc, ord, p3)
      [] pass = "skip_attrs" -> SkipAttrsDesc(rcv, k_key, desc)
      [] pass = "skip_auto" -> SkipAutoDesc(desc, ord)
      [] pass = "include_methods" -> IncludeMethodsDesc(rcv, k_key, desc, ord)

\* for mod_key, mod in rc.env.items(): for kls_key, desc in mod.items()
RECURSIVE Concat(_)
Concat(ss) == IF ss = <<>> THEN <<>> ELSE Head(ss) \o Concat(Tail(ss))
Entries(e, ord) ==
    LET mods == Keys(DOMAIN e, ModList, ord)
    IN Concat([i \in 1..Len(mods) |->
                 LET ks == Keys(DOMAIN e[mods[i]], KeyList, ord)
                 IN [j \in 1..Len(ks) |-> <<mods[i], ks[j]>>]])

SeenNothing(e) == [x \in Range(Entries(e, "fwd")) |-> NoSeen]

RECURSIVE RunEntries(_, _, _, _, _, _, _)
\* the two nested loops of a pass; an exception leaves them at once
RunEntries(pass, rcv, st, entries, i, ord, p3) ==
    IF i > Len(entries) \/ st.raised # "none" THEN st
    ELSE LET m_key == entries[i][1]
             k_key == entries[i][2]
             desc == st.env[m_key][k_key]
             r == IF isclassdesc(desc)
                  THEN ClassStep(pass, rcv, k_key, desc, ord, p3)
                  ELSE Untouched(desc)
         IN RunEntries(pass, rcv,
                       [env |-> [st.env EXCEPT ![m_key][k_key] = r.desc],
                        raised |-> r.raised,
                        seen |-> [st.seen EXCEPT ![entries[i]] = r.seen]],
                       entries, i + 1, ord, p3)

RunPass(pass, rcv, e, ord, p3) ==
    LET st0 == [env |-> e, raised |-> "none", seen |-> SeenNothing(e)]
    IN IF NotSpecified(pass, rcv) THEN st0
       ELSE RunEntries(pass, rcv, st0, Entries(e, ord), 1, ord, p3)

\* ------------------------------------------------------------------ setup
\* [TypeMatcher(t) for t in ...]
Matchers(s) == [i \in 1..Len(s) |-> TypeMatcher(s[i])]
AllWellFormed(s) == \A i \in 1..Len(s) : WellFormed(s[i])

\* XDressPlugin.setup: rc.skiptypes becomes TypeMatcher objects; TypeMatcher
\* raises on a malformed value and rc.skiptypes is then left as it was
SetupRaises(st) ==
    \/ st.kind = "perclass" /\ \E kls \in DOMAIN st.per : ~AllWellFormed(st.per[kls])
    \/ st.kind = "global" /\ ~AllWellFormed(st.glob)
SetupSkiptypes(st) ==
    IF st.kind = "perclass"
    THEN [st EXCEPT !.per = [kls \in DOMAIN st.per |-> Matchers(st.per[kls])]]
    ELSE IF st.kind = "global"
    THEN [st EXCEPT !.glob = Matchers(st.glob)]
    ELSE st

\* ----------------------------------------------------------------- inputs
EmptyMap == [x \in {} |-> <<>>]
Unset == [set |-> FALSE, map |-> EmptyMap]
Given(m) == [set |-> TRUE, map |-> m]
NoTypes == [kind |-> "unset", glob |-> <<>>, per |-> EmptyMap]
OtherTypes == [kind |-> "other", glob |-> <<>>, per |-> EmptyMap]
Global(s) == [kind |-> "global", glob |-> s, per |-> EmptyMap]
PerClass(m) == [kind |-> "perclass", glob |-> <<>>, per |-> m]

AttrsAll == [x |-> TFloat, y |-> TInt, z |-> TUnk, v |-> TVecF]
AttrSets == {AttrsAll, Restrict(AttrsAll, {"x", "y"})}

Methods(S) == [s \in S |-> InfoOf(s)]
Computer == {SCheckEmail, STurnOn, SBlowUp, SSleep, SCrash}
Overloads == {STurnOn, SFooVec, SFooDef, SFooT, SBar}
Mixed == {SCheckEmail, SBlowUp, SFooVec, SBarU, SSleep}
MethodSets == {Computer, Overloads, Mixed, {SFooVec}}

ClassDesc(tarname, attrs, methods) ==
    [kind |-> "class", tarname |-> tarname, attrs |-> attrs, methods |-> methods]
\* a description of another kind (a function, a variable); the payload it
\* carries is held in the same two fields
OtherDesc(tarname, attrs, methods) ==
    [kind |-> "func", tarname |-> tarname, attrs |-> attrs, methods |-> methods]

Registry(attrsA, methsA) ==
    [m1 |-> [A |-> ClassDesc("A", attrsA, Methods(methsA)),
             f |-> OtherDesc("f", [x |-> TFloat, z |-> TUnk], Methods({SSleep, SBar}))],
     m2 |-> [Bk |-> ClassDesc("B", [x |-> TCInt, z |-> TUnk],
                              Methods({STurnOn, SSleep, SFooT}))]]

SkipTypesChoices ==
    {NoTypes, OtherTypes, Global(<<>>), Global(<<TFloat>>), Global(<<TVecF>>),
     Global(<<TCInt, TUnk>>), Global(<<TInt, TVecF>>), Global(<<TFloat, BadRaw>>),
     PerClass([A |-> <<TFloat>>]), PerClass([C |-> <<TFloat>>]),
     PerClass([A |-> <<TVecF>>, B |-> <<TInt>>])}

PrefixAlphabet == {NBlow, NBlowUp, NFoo}
SeqsUpTo(S, n) == UNION {[1..k -> S] : k \in 0..n}
SkipMethodsChoices ==
    {Unset, Given([A |-> <<NBlowUp, NSleep, NCrash>>]),
     Given([B |-> <<NTurnOn>>]), Given([B |-> <<NTurnOn>>, Bk |-> <<NSleep>>])}
    \cup {Given([A |-> l]) : l \in SeqsUpTo(PrefixAlphabet, MaxRules)}

SkipAttrsChoices ==
    {Unset, Given([A |-> <<"x", "nope">>]), Given([A |-> <<"z", "z">>]),
     Given([B |-> <<"x">>]), Given([B |-> <<"z">>, Bk |-> <<"x">>])}

IncludeChoices ==
    {Unset, Given([A |-> <<NTurnOn>>]), Given([A |-> <<NFoo, NCheckEmail>>]),
     Given([A |-> <<>>]), Given([B |-> <<NTurnOn>>]), Given([Bk |-> <<NTurnOn>>]),
     Given([B |-> <<NTurnOn>>, Bk |-> <<NSleep>>])}

SkipAutoChoices == {"unset", "true", "false"}

Rc(st, sm, sa, im, au) ==
    [skiptypes |-> st, skipmethods |-> sm, skipattrs |-> sa,
     includemethods |-> im, skipauto |-> au]

\* the inputs: every type rule against every registry; every method rule
\* against every allow-list; and a cross of all five rules
TypeInputs ==
    {[rc |-> Rc(st, Unset, Unset, Unset, au), env |-> Registry(a, m)] :
        st \in SkipTypesChoices, au \in SkipAutoChoices, a \in AttrSets, m \in MethodSets}
MethodInputs ==
    {[rc |-> Rc(NoTypes, sm, Unset, im, "unset"), env |-> Registry(AttrsAll, m)] :
        sm \in SkipMethodsChoices, im \in IncludeChoices, m \in MethodSets}
CrossInputs ==
    {[rc |-> Rc(st, sm, sa, im, au), env |-> Registry(AttrsAll, m)] :
        st \in {NoTypes, Global(<<TFloat>>)},
        sm \in {Unset, Given([A |-> <<NFoo>>])},
        sa \in SkipAttrsChoices,
        im \in {Unset, Given([A |-> <<NTurnOn>>]), Given([A |-> <<NFoo, NCheckEmail>>])},
        au \in SkipAutoChoices,
        m \in {Computer, Overloads}}
Inputs == TypeInputs \cup MethodInputs \cup CrossInputs

\* ------------------------------------------------------- the state machine
Init ==
    /\ \E inp \in Inputs : rc = inp.rc /\ env = inp.env
    /\ order \in {"fwd", "rev"}
    /\ py3 \in BOOLEAN
    /\ pc = "setup"
    /\ raised = "none"
    /\ run = 0
    /\ lastPass = "none"
    /\ prev = env
    /\ envStart = env
    /\ seen = SeenNothing(env)

\* the plugin framework calls setup, then execute
Setup ==
    /\ pc = "setup"
    /\ IF SetupRaises(rc.skiptypes)
       THEN /\ raised' = "MalformedPattern"
            /\ pc' = "raised"
            /\ UNCHANGED <<rc, run>>
       ELSE /\ rc' = [rc EXCEPT !.skiptypes = SetupSkiptypes(rc.skiptypes)]
            /\ pc' = "skip_types"
            /\ run' = 1
            /\ UNCHANGED raised
    /\ UNCHANGED <<env, lastPass, prev, envStart, seen, order, py3>>

\* one pass of execute: the next pass follows unless an exception escaped
Pass(name, next) ==
    LET st == RunPass(name, rc, env, order, py3)
    IN /\ env' = st.env
       /\ raised' = st.raised
       /\ seen' = st.seen
       /\ pc' = IF st.raised = "none" THEN next ELSE "raised"
       /\ lastPass' = name
       /\ prev' = env
       /\ UNCHANGED <<rc, run, envStart, order, py3>>

skip_types ==
    /\ pc = "skip_types"
    /\ Pass("skip_types", "skip_methods")
skip_methods ==
    /\ pc = "skip_methods"
    /\ Pass("skip_methods", "skip_attrs")
skip_attrs ==
    /\ pc = "skip_attrs"
    /\ Pass("skip_attrs", "skip_auto")
skip_auto ==
    /\ pc = "skip_auto"
    /\ Pass("skip_auto", "include_methods")
include_methods ==
    /\ pc = "include_methods"
    /\ Pass("include_methods", "done")

\* execute is run again on the registry it produced
Execute ==
    /\ pc = "done"
    /\ run < MaxRuns
    /\ run' = run + 1
    /\ pc' = "skip_types"
    /\ envStart' = env
    /\ UNCHANGED <<env, rc, raised, lastPass, prev, seen, order, py3>>

Next ==
    \/ Setup
    \/ skip_types
    \/ skip_methods
    \/ skip_attrs
    \/ skip_auto
    \/ include_methods
    \/ Execute

Spec == Init /\ [][Next]_vars

\* ------------------------------------------------------------- properties
ClassEntries(e) == {x \in Range(Entries(e, "fwd")) : isclassdesc(e[x[1]][x[2]])}
At(e, x) == e[x[1]][x[2]]
SubMap(f, g) == DOMAIN f \subseteq DOMAIN g /\ \A k \in DOMAIN f : f[k] = g[k]
IsPerm(s, S) == Range(s) = S /\ Len(s) = Cardinality(S)
\* every type a method mentions: its return type, if any, and its arguments'
Sites(s, info) ==
    (IF info = Null THEN {} ELSE {info[1]}) \cup {s.args[i][2] : i \in 1..Len(s.args)}
\* x[0], the method name of a key: a string, or a tuple for a template method
Named(s, names) == s.tmpl = <<>> /\ s.name \in names

\* C1: a second execute on the registry the first one produced changes no
\* class's attrs or methods
C1_Idempotent == (pc = "done" /\ run = 2) => env = envStart

\* C2: when execute has finished, a class with a non-empty includemethods
\* entry holds only methods whose name is in its keep set, and every method
\* of a kept name that reached the last pass is still there
C2_AllowListPrecedence ==
    (pc = "done" /\ rc.includemethods.set) =>
        \A x \in ClassEntries(env) :
            LET tn == At(env, x).tarname
                im == rc.includemethods.map
            IN (tn \in DOMAIN im /\ im[tn] # <<>>) =>
                   /\ \A s \in DOMAIN At(env, x).methods : Named(s, Range(im[tn]))
                   /\ \A s \in DOMAIN At(prev, x).methods :
                          Named(s, Range(im[tn])) => s \in DOMAIN At(env, x).methods

\* C3: after skip_auto with skipauto true, no class keeps an attribute or a
\* method that mentions a type the canonicalizer rejects
C3_AutoSkipSound ==
    (lastPass = "skip_auto" /\ rc.skipauto = "true") =>
        \A x \in ClassEntries(env) :
            /\ \A a \in DOMAIN At(env, x).attrs : ~CanonFails(At(env, x).attrs[a])
            /\ \A s \in DOMAIN At(env, x).methods :
                   \A t \in Sites(s, At(env, x).methods[s]) : ~CanonFails(t)

\* C4: once setup has succeeded nothing raises: the only exception a run can
\* end with is the malformed pattern of setup
C4_OnlyMalformedFatal == raised \in {"none", "MalformedPattern"}

RECURSIVE LegalResults(_, _)
\* the key sets that deleting exactly one match per prefix, in list order, can leave
LegalResults(S, l) ==
    IF l = <<>> THEN {S}
    ELSE LET hits == {s \in S : StartsWith(s.name, Head(l))}
         IN IF hits = {} THEN LegalResults(S, Tail(l))
            ELSE UNION {LegalResults(S \ {h}, Tail(l)) : h \in hits}

\* C5: after skip_methods, each class named in skipmethods has lost exactly
\* one matching signature for every prefix that had a match at its turn, and
\* nothing else
C5_SingleRemoval ==
    (lastPass = "skip_methods" /\ rc.skipmethods.set) =>
        \A x \in ClassEntries(env) :
            LET tn == At(env, x).tarname
            IN tn \in DOMAIN rc.skipmethods.map =>
                   /\ DOMAIN At(env, x).methods \in
                          LegalResults(DOMAIN At(prev, x).methods, rc.skipmethods.map[tn])
                   /\ SubMap(At(env, x).methods, At(prev, x).methods)

\* C6: after skip_types, a class named in a per-class skiptypes is filtered by
\* modify_desc with its own matchers, every class is filtered with the global
\* list, and everything else is unchanged
C6_SkipTypesScope ==
    lastPass = "skip_types" =>
        \A x \in Range(Entries(env, "fwd")) :
            LET d == At(prev, x)
                st == rc.skiptypes
            IN At(env, x) =
                   IF isclassdesc(d) /\ st.kind = "perclass" /\ d.tarname \in DOMAIN st.per
                   THEN modify_desc(st.per[d.tarname], d, order).desc
                   ELSE IF isclassdesc(d) /\ st.kind = "global"
                   THEN modify_desc(st.glob, d, order).desc
                   ELSE d

\* C7: skip_auto changes nothing when skipauto is false or unset
C7_NoOpWhenFalse ==
    (lastPass = "skip_auto" /\ rc.skipauto \in {"unset", "false"}) => env = prev

Narrowed(before, after) ==
    /\ DOMAIN after = DOMAIN before
    /\ \A m \in DOMAIN before :
           /\ DOMAIN after[m] = DOMAIN before[m]
           /\ \A k \in DOMAIN before[m] :
                  /\ after[m][k].kind = before[m][k].kind
                  /\ after[m][k].tarname = before[m][k].tarname
                  /\ SubMap(after[m][k].attrs, before[m][k].attrs)
                  /\ SubMap(after[m][k].methods, before[m][k].methods)
                  /\ ~isclassdesc(before[m][k]) => after[m][k] = before[m][k]

\* C8: the passes only narrow: modules, keys and names stay, every attrs and
\* methods mapping is a sub-mapping of what it was before the pass and before
\* the run, and descriptions that are no class descriptions are unchanged
C8_OnlyNarrows == Narrowed(prev, env) /\ Narrowed(envStart, env)
C8_Witness ==
    /\ pc = "done"
    /\ \E x \in ClassEntries(env) :
           /\ DOMAIN At(env, x).methods # DOMAIN At(envStart, x).methods
           /\ DOMAIN At(env, x).attrs # DOMAIN At(envStart, x).attrs
           /\ \E s \in DOMAIN At(env, x).methods : At(env, x).methods[s] # Null
    /\ \E x \in Range(Entries(env, "fwd")) :
           ~isclassdesc(At(env, x)) /\ DOMAIN At(env, x).attrs # {}

\* C9: modify_desc deletes an attribute iff some matcher flatmatches its
\* type, and a method iff some matcher flatmatches its return type or one of
\* its argument types; the matchers' order does not matter
C9_ModifyDescExact ==
    (lastPass = "skip_types" /\ rc.skiptypes.kind = "global") =>
        \A x \in ClassEntries(env) :
            LET d == At(prev, x)
                tms == Range(rc.skiptypes.glob)
                hitA == {a \in DOMAIN d.attrs : \E tm \in tms : flatmatches(tm, d.attrs[a])}
                hitM == {s \in DOMAIN d.methods :
                            \E tm \in tms : \E t \in Sites(s, d.methods[s]) :
                                flatmatches(tm, t)}
            IN /\ At(env, x).attrs = Restrict(d.attrs, DOMAIN d.attrs \ hitA)
               /\ At(env, x).methods = Restrict(d.methods, DOMAIN d.methods \ hitM)
               /\ modify_desc(Reverse(rc.skiptypes.glob), d, order).desc = At(env, x)
C9_Witness ==
    /\ lastPass = "skip_types"
    /\ rc.skiptypes.glob = <<TypeMatcher(TFloat)>>
    /\ SFooVec \in DOMAIN prev.m1.A.methods
    /\ SFooVec \notin DOMAIN env.m1.A.methods
    /\ STurnOn \in DOMAIN env.m1.A.methods
    /\ DOMAIN env.m1.A.attrs = {"y", "z"}

\* C10: a pass that scans a mapping examines every entry that was in it when
\* the pass started exactly once
C10_EveryEntryExaminedOnce ==
    \A x \in ClassEntries(env) :
        /\ (lastPass = "skip_types" /\ rc.skiptypes.kind = "global") =>
               /\ IsPerm(seen[x].attrs, DOMAIN At(prev, x).attrs)
               /\ IsPerm(seen[x].methods, DOMAIN At(prev, x).methods)
        /\ (lastPass = "skip_auto" /\ rc.skipauto # "unset") =>
               /\ IsPerm(seen[x].attrs, DOMAIN At(prev, x).attrs)
               /\ IsPerm(seen[x].methods, DOMAIN At(prev, x).methods)
        /\ (lastPass = "include_methods" /\ rc.includemethods.set
                /\ At(prev, x).tarname \in DOMAIN rc.includemethods.map
                /\ x[2] \in DOMAIN rc.includemethods.map) =>
               IsPerm(seen[x].methods, DOMAIN At(prev, x).methods)

=============================================================================
